---- MODULE Spec2Model ----
(***************************************************************************)
(* Model of game_of_life.py: Cell (two-phase state), the Neighbour         *)
(* descriptors, and Universe (construction, __setitem__, tick, to_list).   *)
(* A cell reference is the cell's position in Universe._cells (1-based);   *)
(* the reference 0 is the NullCell singleton Cell.NULL.                     *)
(***************************************************************************)
EXTENDS Integers, Sequences, FiniteSets, TLC

\* ------------------------------------------------------------------ bounds
\* a universe is built with at most MaxCells cells
MaxCells == 9
\* at most MaxTicks calls of tick() after the last seeding
MaxTicks == 2
\* cells of a universe whose cells are driven one by one (is_alive = ..., commit())
MaxDirectCells == 3
\* cells of a universe whose tick() is followed statement by statement
MaxStepCells == 6
\* cells of the table handed to next_state
MaxBatchCells == 9

\* ------------------------------------------------------------ Python values
\* Python's None (an empty _state_dirty, the result of get_neighbour off grid)
None == -1
\* reference to the NullCell singleton, Cell.NULL
NULL == 0
\* class NullCell: _state = 0
NullCell == [state |-> 0]

\* int(b) of a bool
PyInt(b) == IF b THEN 1 ELSE 0

\* list.insert(0, v)
insert_front(seq, v) == <<v>> \o seq

\* list.append(v)
append(seq, v) == Append(seq, v)

\* seq[i] of a Python list: a negative index counts from the end, and an index
\* outside -len..len-1 raises IndexError (InRange is FALSE)
InRange(seq, i) == -Len(seq) <= i /\ i < Len(seq)
PyIndex(seq, i) == IF i < 0 THEN seq[Len(seq) + i + 1] ELSE seq[i + 1]

\* --------------------------------------------------------------------- Cell
\* Cell.__init__ with the two coordinates stored in each other's place
Cell_swapped(is_alive, pos_x, pos_y) ==
    [state |-> PyInt(is_alive), state_dirty |-> None, pos_x |-> pos_y, pos_y |-> pos_x]

\* Cell.__init__
Cell(is_alive, pos_x, pos_y) ==
    [state |-> PyInt(is_alive), state_dirty |-> None, pos_x |-> pos_x, pos_y |-> pos_y]

\* Cell.is_alive (getter): bool(self._state); bool(None) is False
is_alive(cell) == cell.state # 0 /\ cell.state # None

\* the setter with its assertion compiled away
CanStage_always(cell) == TRUE

\* the assertion of the is_alive setter
CanStage(cell) == cell.state_dirty = None

\* the setter writing the committed state at once
Stage_inplace(cell, alive) ==
    [cell EXCEPT !.state = PyInt(alive), !.state_dirty = PyInt(alive)]

\* Cell.is_alive (setter), when its assertion holds
Stage(cell, alive) == [cell EXCEPT !.state_dirty = PyInt(alive)]

\* Cell.commit without the line that empties _state_dirty
commit_keep_dirty(cell) == [cell EXCEPT !.state = cell.state_dirty]

\* Cell.commit
commit(cell) == [cell EXCEPT !.state = cell.state_dirty, !.state_dirty = None]

\* --------------------------------------------------------------- Neighbours
\* the eight descriptors of class Neighbours, with their relative coordinates
Neighbours ==
    [top          |-> [x |-> 0,  y |-> -1],
     top_right    |-> [x |-> 1,  y |-> -1],
     right        |-> [x |-> 1,  y |-> 0],
     bottom_right |-> [x |-> 1,  y |-> 1],
     bottom       |-> [x |-> 0,  y |-> 1],
     bottom_left  |-> [x |-> -1, y |-> 1],
     left         |-> [x |-> -1, y |-> 0],
     top_left     |-> [x |-> -1, y |-> -1]]

Names == DOMAIN Neighbours

\* Neighbour.__get__ without the default: instance.__dict__.get(name)
Get_no_default(instance, name) == IF name \in DOMAIN instance THEN instance[name] ELSE None

\* Neighbour.__get__ on an instance: instance.__dict__.get(name, Cell.NULL)
Get(instance, name) == IF name \in DOMAIN instance THEN instance[name] ELSE NULL

\* the _state of what a reference points to
StateOf(cs, ref) == IF ref = NULL THEN NullCell.state ELSE cs[ref].state

\* get_alive_count with the last term, top_left, left out
get_alive_count_no_top_left(instance, cs) ==
    StateOf(cs, Get(instance, "top"))
    + StateOf(cs, Get(instance, "top_right"))
    + StateOf(cs, Get(instance, "right"))
    + StateOf(cs, Get(instance, "bottom_right"))
    + StateOf(cs, Get(instance, "bottom"))
    + StateOf(cs, Get(instance, "bottom_left"))
    + StateOf(cs, Get(instance, "left"))

\* Neighbours.get_alive_count
get_alive_count(instance, cs) ==
    StateOf(cs, Get(instance, "top"))
    + StateOf(cs, Get(instance, "top_right"))
    + StateOf(cs, Get(instance, "right"))
    + StateOf(cs, Get(instance, "bottom_right"))
    + StateOf(cs, Get(instance, "bottom"))
    + StateOf(cs, Get(instance, "bottom_left"))
    + StateOf(cs, Get(instance, "left"))
    + StateOf(cs, Get(instance, "top_left"))

\* ----------------------------------------------------- Universe.__init__
\* inner loop of pass 1: the cells of one row, appended to the row and to _cells
RECURSIVE AllocRow(_, _, _, _)
AllocRow(width, row_ptr, col_ptr, acc) ==
    IF col_ptr >= width THEN acc
    ELSE AllocRow(width, row_ptr, col_ptr + 1,
                  [row   |-> Append(acc.row, Len(acc.cells) + 1),
                   cells |-> Append(acc.cells, Cell(FALSE, col_ptr, row_ptr))])

\* outer loop of pass 1: one row per row_ptr in range(height)
RECURSIVE AllocBoard(_, _, _, _)
AllocBoard(width, height, row_ptr, acc) ==
    IF row_ptr >= height THEN acc
    ELSE LET r == AllocRow(width, row_ptr, 0, [row |-> <<>>, cells |-> acc.cells])
         IN  AllocBoard(width, height, row_ptr + 1,
                        [board |-> Append(acc.board, r.row), cells |-> r.cells])

\* get_neighbour without the lower bounds: board[-1] is then the opposite edge
get_neighbour_no_lower(b, width, height, col_ptr, row_ptr, neighbour) ==
    LET x == col_ptr + neighbour.x
        y == row_ptr + neighbour.y
    IN  IF x < width /\ y < height
        THEN PyIndex(PyIndex(b, y), x)
        ELSE None

\* the nested function get_neighbour: the cell at the offset, or None off grid
get_neighbour(b, width, height, col_ptr, row_ptr, neighbour) ==
    LET x == col_ptr + neighbour.x
        y == row_ptr + neighbour.y
    IN  IF -1 < x /\ x < width /\ -1 < y /\ y < height
        THEN PyIndex(PyIndex(b, y), x)
        ELSE None

\* pass 2 for one cell: Neighbour.__set__ stores a value only when it is not None
Wire(b, width, height, col_ptr, row_ptr) ==
    LET got(n) == get_neighbour(b, width, height, col_ptr, row_ptr, Neighbours[n])
    IN  [n \in {m \in Names : got(m) # None} |-> got(n)]

\* pass 2: enumerate(board), enumerate(row); the result is indexed like _cells
WireAll(b, cs, width, height) ==
    [ref \in 1..Len(cs) |->
        LET row_ptr == CHOOSE r \in 0..(Len(b) - 1) :
                          \E c \in 1..Len(b[r + 1]) : b[r + 1][c] = ref
            col_ptr == CHOOSE c \in 0..(Len(b[row_ptr + 1]) - 1) :
                          b[row_ptr + 1][c + 1] = ref
        IN  Wire(b, width, height, col_ptr, row_ptr)]

\* ------------------------------------------------------------------- state
VARIABLES
    phase,        \* "none" before Universe(...) has run, "stable" after it
    width,        \* the constructor's arguments
    height,
    board,        \* Universe._board: rows of cell references
    cells,        \* Universe._cells: the cells, in creation order
    neighbours,   \* cell.neighbours.__dict__ of every cell
    exc,          \* the exception the last call raised, or "none"
    lastOp,       \* the last call
    gens,         \* the committed states of _cells after the last seeding and after each tick since
    returned,     \* the values tick() returned since the last seeding
    snap,         \* the value the last call returned, when it was to_list()
    frame,        \* the locals of the tick() that is running or ran last, when followed by statement
    batch,        \* the argument and the return value of next_state
    ticked        \* whether tick() has been called on the universe

vars == <<phase, width, height, board, cells, neighbours, exc, lastOp, gens, returned, snap,
          frame, batch, ticked>>

\* no tick() is being followed; next_state is not in use
NoFrame == <<>>
NoBatch == <<>>

\* the committed _state of every cell, in _cells order
Committed(cs) == [i \in 1..Len(cs) |-> cs[i].state]

Init ==
    /\ phase = "none"
    /\ width = 0
    /\ height = 0
    /\ board = <<>>
    /\ cells = <<>>
    /\ neighbours = <<>>
    /\ exc = "none"
    /\ lastOp = "none"
    /\ gens = <<>>
    /\ returned = <<>>
    /\ snap = <<>>
    /\ frame = NoFrame
    /\ batch = NoBatch
    /\ ticked = FALSE

\* Universe(w, h)
Construct(w, h) ==
    /\ phase = "none"
    /\ LET a == AllocBoard(w, h, 0, [board |-> <<>>, cells |-> <<>>])
       IN  /\ board' = a.board
           /\ cells' = a.cells
           /\ neighbours' = WireAll(a.board, a.cells, w, h)
           /\ gens' = <<Committed(a.cells)>>
    /\ phase' = "stable"
    /\ width' = w
    /\ height' = h
    /\ exc' = "none"
    /\ lastOp' = "construct"
    /\ returned' = <<>>
    /\ snap' = <<>>
    /\ frame' = NoFrame
    /\ UNCHANGED <<batch, ticked>>

\* ---------------------------------------------------- Universe.__setitem__
\* the body of __setitem__: the cells afterwards and the exception raised
setitem(b, cs, x, y, alive) ==
    IF ~InRange(b, y) \/ ~InRange(PyIndex(b, y), x)
    THEN \* self._board[y][x] raises before anything is written
         [cells |-> cs, exc |-> "IndexError"]
    ELSE LET ref == PyIndex(PyIndex(b, y), x)
         IN  IF ~CanStage(cs[ref])
             THEN [cells |-> cs, exc |-> "AssertionError"]
             ELSE [cells |-> [cs EXCEPT ![ref] = commit(Stage(cs[ref], alive))],
                   exc   |-> "none"]

\* __setitem__ refusing to write once tick() has been called
SetItem_presim(x, y, alive) ==
    /\ phase = "stable"
    /\ LET r == IF ticked THEN [cells |-> cells, exc |-> "RuntimeError"]
                ELSE setitem(board, cells, x, y, alive)
       IN  /\ cells' = r.cells
           /\ exc' = r.exc
           /\ IF r.exc # "none"
              THEN UNCHANGED <<gens, returned>>
              ELSE /\ gens' = <<Committed(r.cells)>>
                   /\ returned' = <<>>
    /\ lastOp' = "set"
    /\ snap' = <<>>
    /\ frame' = NoFrame
    /\ UNCHANGED <<phase, width, height, board, neighbours, batch, ticked>>

\* universe[x, y] = alive
SetItem(x, y, alive) ==
    /\ phase = "stable"
    /\ LET r == setitem(board, cells, x, y, alive)
       IN  /\ cells' = r.cells
           /\ exc' = r.exc
           /\ IF r.exc # "none"
              THEN UNCHANGED <<gens, returned>>
              ELSE /\ gens' = <<Committed(r.cells)>>
                   /\ returned' = <<>>
    /\ lastOp' = "set"
    /\ snap' = <<>>
    /\ frame' = NoFrame
    /\ UNCHANGED <<phase, width, height, board, neighbours, batch, ticked>>

\* ------------------------------------------------------------ Universe.tick
\* the rule with a live cell surviving on 3 neighbours only
Rule_survive3(alive, alive_neighbour_count) ==
    IF alive
    THEN [staged |-> TRUE, value |-> (alive_neighbour_count = 3), append |-> TRUE]
    ELSE IF alive_neighbour_count = 3
         THEN [staged |-> TRUE, value |-> TRUE, append |-> TRUE]
         ELSE [staged |-> FALSE, value |-> FALSE, append |-> FALSE]

\* the rule with a surviving live cell staged but left out of changed
Rule_flips_only(alive, alive_neighbour_count) ==
    IF alive
    THEN [staged |-> TRUE,
          value  |-> (alive_neighbour_count = 2 \/ alive_neighbour_count = 3),
          append |-> ~(alive_neighbour_count = 2 \/ alive_neighbour_count = 3)]
    ELSE IF alive_neighbour_count = 3
         THEN [staged |-> TRUE, value |-> TRUE, append |-> TRUE]
         ELSE [staged |-> FALSE, value |-> FALSE, append |-> FALSE]

\* the rule with a dead cell that stays dead staged and appended as well
Rule_uniform(alive, alive_neighbour_count) ==
    IF alive
    THEN [staged |-> TRUE,
          value  |-> (alive_neighbour_count = 2 \/ alive_neighbour_count = 3),
          append |-> TRUE]
    ELSE [staged |-> TRUE, value |-> (alive_neighbour_count = 3), append |-> TRUE]

\* the rule with a dead cell that stays dead staged but not appended
Rule_dead_staged(alive, alive_neighbour_count) ==
    IF alive
    THEN [staged |-> TRUE,
          value  |-> (alive_neighbour_count = 2 \/ alive_neighbour_count = 3),
          append |-> TRUE]
    ELSE [staged |-> TRUE, value |-> (alive_neighbour_count = 3),
          append |-> (alive_neighbour_count = 3)]

\* the rule of the first loop: the value staged on the cell, and whether the
\* cell is appended to changed
Rule(alive, alive_neighbour_count) ==
    IF alive
    THEN [staged |-> TRUE,
          value  |-> (alive_neighbour_count = 2 \/ alive_neighbour_count = 3),
          append |-> TRUE]
    ELSE IF alive_neighbour_count = 3
         THEN [staged |-> TRUE, value |-> TRUE, append |-> TRUE]
         ELSE [staged |-> FALSE, value |-> FALSE, append |-> FALSE]

\* one round of the first loop of tick, for the cell at position i of _cells;
\* acc holds the cells as staged so far, the list changed, and the exception raised
StageOne(nb, i, acc) ==
    LET cell == acc.cells[i]
        r    == Rule(is_alive(cell), get_alive_count(nb[i], acc.cells))
    IN  IF ~r.staged THEN acc
        ELSE IF ~CanStage(cell)
             THEN [acc EXCEPT !.exc = "AssertionError"]
             ELSE [cells   |-> [acc.cells EXCEPT ![i] = Stage(cell, r.value)],
                   changed |-> IF r.append THEN append(acc.changed, i) ELSE acc.changed,
                   exc     |-> "none"]

\* the first loop of tick, from the cell at position i of _cells on
RECURSIVE StagePass(_, _, _)
StagePass(nb, i, acc) ==
    IF i > Len(acc.cells) \/ acc.exc # "none" THEN acc
    ELSE StagePass(nb, i + 1, StageOne(nb, i, acc))

\* the second loop of tick: commit every cell of changed, in order
RECURSIVE CommitPass(_, _, _)
CommitPass(cs, changed, k) ==
    IF k > Len(changed) THEN cs
    ELSE CommitPass([cs EXCEPT ![changed[k]] = commit(cs[changed[k]])], changed, k + 1)

\* the body of tick: the cells afterwards, the list returned, the exception raised
tick(nb, cs) ==
    LET staged == StagePass(nb, 1, [cells |-> cs, changed |-> <<>>, exc |-> "none"])
    IN  IF staged.exc # "none" THEN staged
        ELSE [cells   |-> CommitPass(staged.cells, staged.changed, 1),
              changed |-> staged.changed,
              exc     |-> "none"]

\* universe.tick()
Tick ==
    /\ phase = "stable"
    /\ Len(returned) < MaxTicks
    /\ lastOp' = "tick"
    /\ snap' = <<>>
    /\ frame' = NoFrame
    /\ ticked' = TRUE
    /\ UNCHANGED <<phase, width, height, board, neighbours, batch>>
    /\ LET r == tick(neighbours, cells)
       IN  /\ exc' = r.exc
           /\ cells' = r.cells
           /\ IF r.exc # "none"
              THEN UNCHANGED <<gens, returned>>
              ELSE /\ gens' = Append(gens, Committed(r.cells))
                   /\ returned' = Append(returned, r.changed)

\* --------------------------------------------------------- Universe.to_list
\* to_list walking every row from its last cell to its first
to_list_reversed(b, cs) ==
    [r \in 1..Len(b) |-> [c \in 1..Len(b[r]) |-> is_alive(cs[b[r][Len(b[r]) + 1 - c]])]]

\* rows of booleans, one per row of _board
to_list(b, cs) ==
    [r \in 1..Len(b) |-> [c \in 1..Len(b[r]) |-> is_alive(cs[b[r][c]])]]

\* universe.to_list()
ToList ==
    /\ phase = "stable"
    /\ snap' = to_list(board, cells)
    /\ lastOp' = "to_list"
    /\ exc' = "none"
    /\ UNCHANGED <<phase, width, height, board, cells, neighbours, gens, returned,
                   frame, batch, ticked>>

Next ==
    \/ \E w \in -1..MaxCells, h \in -1..MaxCells :
          /\ w * h <= MaxCells
          /\ Construct(w, h)
    \* seeding writes positions of the grid, as next_state and the main script do
    \/ \E x \in 0..(width - 1), y \in 0..(height - 1), alive \in BOOLEAN :
          SetItem(x, y, alive)
    \/ Tick
    \/ ToList

Spec == Init /\ [][Next]_vars

\* ------------------------------------------ cells driven one by one
\* universe.cells[i - 1].is_alive = alive
CellStage(i, alive) ==
    /\ phase = "stable"
    /\ lastOp' = "stage"
    /\ IF ~CanStage(cells[i])
       THEN /\ exc' = "AssertionError"
            /\ UNCHANGED cells
       ELSE /\ exc' = "none"
            /\ cells' = [cells EXCEPT ![i] = Stage(cells[i], alive)]
    /\ UNCHANGED <<phase, width, height, board, neighbours, gens, returned, snap,
                   frame, batch, ticked>>

\* universe.cells[i - 1].commit()
CellCommit(i) ==
    /\ phase = "stable"
    /\ lastOp' = "commit"
    /\ exc' = "none"
    /\ cells' = [cells EXCEPT ![i] = commit(cells[i])]
    /\ UNCHANGED <<phase, width, height, board, neighbours, gens, returned, snap,
                   frame, batch, ticked>>

NextCell ==
    \/ \E w \in 1..MaxDirectCells, h \in 1..MaxDirectCells :
          /\ w * h <= MaxDirectCells
          /\ Construct(w, h)
    \/ \E i \in 1..Len(cells), alive \in BOOLEAN : CellStage(i, alive)
    \/ \E i \in 1..Len(cells) : CellCommit(i)

\* a universe whose cells are written through Universe.cells, in any order
SpecCell == Init /\ [][NextCell]_vars

\* ------------------------------------- tick() followed statement by statement
\* tick() is called: changed = []
TickCall ==
    /\ phase = "stable"
    /\ Len(returned) < MaxTicks
    /\ phase' = "tick"
    /\ lastOp' = "tick"
    /\ exc' = "none"
    /\ snap' = <<>>
    /\ frame' = [i         |-> 1,
                 k         |-> 1,
                 changed   |-> <<>>,
                 before    |-> Committed(cells),
                 staged    |-> [j \in 1..Len(cells) |-> 0],
                 committed |-> [j \in 1..Len(cells) |-> 0]]
    /\ ticked' = TRUE
    /\ UNCHANGED <<width, height, board, cells, neighbours, gens, returned, batch>>

\* one round of the first loop; frame.staged counts the calls of the setter
StageStep ==
    /\ phase = "tick"
    /\ frame.i <= Len(cells)
    /\ LET acc == StageOne(neighbours, frame.i,
                           [cells |-> cells, changed |-> frame.changed, exc |-> "none"])
           set == Rule(is_alive(cells[frame.i]),
                       get_alive_count(neighbours[frame.i], cells)).staged
       IN  /\ cells' = acc.cells
           /\ exc' = acc.exc
           /\ phase' = IF acc.exc # "none" THEN "stable" ELSE "tick"
           /\ frame' = [frame EXCEPT
                           !.i = @ + 1,
                           !.changed = acc.changed,
                           !.staged[frame.i] = IF set THEN @ + 1 ELSE @]
    /\ UNCHANGED <<width, height, board, neighbours, lastOp, gens, returned, snap, batch,
                   ticked>>

\* one round of the second loop; frame.committed counts the calls of commit()
CommitStep ==
    /\ phase = "tick"
    /\ frame.i > Len(cells)
    /\ frame.k <= Len(frame.changed)
    /\ cells' = [cells EXCEPT ![frame.changed[frame.k]] = commit(cells[frame.changed[frame.k]])]
    /\ frame' = [frame EXCEPT !.k = @ + 1, !.committed[frame.changed[frame.k]] = @ + 1]
    /\ UNCHANGED <<phase, width, height, board, neighbours, exc, lastOp, gens, returned,
                   snap, batch, ticked>>

\* return changed
TickReturn ==
    /\ phase = "tick"
    /\ frame.i > Len(cells)
    /\ frame.k > Len(frame.changed)
    /\ phase' = "stable"
    /\ gens' = Append(gens, Committed(cells))
    /\ returned' = Append(returned, frame.changed)
    /\ UNCHANGED <<width, height, board, cells, neighbours, exc, lastOp, snap, frame, batch,
                   ticked>>

NextSteps ==
    \/ \E w \in 0..MaxStepCells, h \in 0..MaxStepCells :
          /\ w * h <= MaxStepCells
          /\ Construct(w, h)
    \/ \E x \in 0..(width - 1), y \in 0..(height - 1), alive \in BOOLEAN :
          SetItem(x, y, alive)
    \/ TickCall
    \/ StageStep
    \/ CommitStep
    \/ TickReturn
    \/ ToList

\* the universe with every statement of tick() a step of its own
SpecSteps == Init /\ [][NextSteps]_vars

\* --------------------------------------------------------------- next_state
\* the two characters a table is written in
Markers == {<<"#", ".">>, <<".", "#">>}

\* the width and height of the tables handed to next_state
Shapes == {s \in (1..MaxBatchCells) \X (1..MaxBatchCells) : s[1] * s[2] <= MaxBatchCells}

\* Config: the alive marker, the dead marker and a rectangular table over them
Configs ==
    UNION {{[elo_sejt |-> m[1], halott_sejt |-> m[2], tabla |-> t] :
               t \in [1..s[2] -> [1..s[1] -> {m[1], m[2]}]]} :
           s \in Shapes, m \in Markers}

\* the loops that copy the table into the universe, from flat position p on
RECURSIVE seed_universe(_, _, _, _)
seed_universe(config, b, acc, p) ==
    LET w == Len(config.tabla[1])
        row_ptr == p \div w
        col_ptr == p % w
    IN  IF p >= w * Len(config.tabla) \/ acc.exc # "none" THEN acc
        ELSE IF config.tabla[row_ptr + 1][col_ptr + 1] = config.elo_sejt
             THEN seed_universe(config, b, setitem(b, acc.cells, col_ptr, row_ptr, TRUE), p + 1)
             ELSE seed_universe(config, b, acc, p + 1)

\* the character of a cell with the two branches exchanged
render_swapped(alive, config) == IF alive THEN config.halott_sejt ELSE config.elo_sejt

\* the character written for a cell of to_list()
render(alive, config) == IF alive THEN config.elo_sejt ELSE config.halott_sejt

\* next_state(config): the Config returned, or the exception raised
next_state(config) ==
    LET w      == Len(config.tabla[1])
        h      == Len(config.tabla)
        a      == AllocBoard(w, h, 0, [board |-> <<>>, cells |-> <<>>])
        nb     == WireAll(a.board, a.cells, w, h)
        seeded == seed_universe(config, a.board, [cells |-> a.cells, exc |-> "none"], 0)
        after  == tick(nb, seeded.cells)
        table  == to_list(a.board, after.cells)
    IN  IF seeded.exc # "none" THEN [exc |-> seeded.exc]
        ELSE IF after.exc # "none" THEN [exc |-> after.exc]
        ELSE [exc         |-> "none",
              elo_sejt    |-> config.elo_sejt,
              halott_sejt |-> config.halott_sejt,
              tabla       |-> [r \in 1..Len(table) |->
                                 [c \in 1..Len(table[r]) |-> render(table[r][c], config)]]]

InitBatch ==
    /\ phase = "none"
    /\ width = 0
    /\ height = 0
    /\ board = <<>>
    /\ cells = <<>>
    /\ neighbours = <<>>
    /\ exc = "none"
    /\ lastOp = "none"
    /\ gens = <<>>
    /\ returned = <<>>
    /\ snap = <<>>
    /\ frame = NoFrame
    /\ ticked = FALSE
    /\ batch \in {[config |-> c, done |-> FALSE, result |-> <<>>] : c \in Configs}

\* result = next_state(config)
NextState ==
    /\ ~batch.done
    /\ batch' = [batch EXCEPT !.done = TRUE, !.result = next_state(batch.config)]
    /\ lastOp' = "next_state"
    /\ UNCHANGED <<phase, width, height, board, cells, neighbours, exc, gens, returned,
                   snap, frame, ticked>>

NextBatch == NextState

\* next_state applied to every table within the bounds
SpecBatch == InitBatch /\ [][NextBatch]_vars

\* ================================================================ properties
\* the cell reference at coordinates (x, y), as _board[y][x] indexes it
CellAt(x, y) == board[y + 1][x + 1]

Xs == 0..(width - 1)
Ys == 0..(height - 1)

\* a vector of committed states (in _cells order) as a grid of booleans G[y][x]
GridOf(g) == [y \in Ys |-> [x \in Xs |-> g[CellAt(x, y)] = 1]]

\* the grid the universe was seeded with, and the committed grid now
Seed == GridOf(gens[1])
GridNow == [y \in Ys |-> [x \in Xs |-> is_alive(cells[CellAt(x, y)])]]

\* the positions alive in a grid
LiveSet(G) == {p \in Xs \X Ys : G[p[2]][p[1]]}

\* the reference Conway step on a w x h grid with a dead boundary
RefCount(G, w, h, x, y) ==
    Cardinality({d \in (-1..1) \X (-1..1) :
                    /\ d # <<0, 0>>
                    /\ x + d[1] \in 0..(w - 1)
                    /\ y + d[2] \in 0..(h - 1)
                    /\ G[y + d[2]][x + d[1]]})

RefStep(G, w, h) ==
    [y \in 0..(h - 1) |-> [x \in 0..(w - 1) |->
        IF G[y][x] THEN RefCount(G, w, h, x, y) \in {2, 3}
                   ELSE RefCount(G, w, h, x, y) = 3]]

RECURSIVE RefIter(_, _, _, _)
RefIter(G, w, h, k) == IF k = 0 THEN G ELSE RefIter(RefStep(G, w, h), w, h, k - 1)

\* the 3 x 3 plus shape and the ring of the 8 outer cells
PlusShape == {<<1, 0>>, <<0, 1>>, <<1, 1>>, <<2, 1>>, <<1, 2>>}
RingShape == ((0..2) \X (0..2)) \ {<<1, 1>>}

\* C1: after k ticks the committed grid is the k-fold reference Conway step of
\* the seeded grid (dead boundary); a 3 x 3 plus shape becomes, after one
\* tick, the ring of the 8 outer cells with the centre dead.
Thm_C1 ==
    phase = "stable" =>
        LET now == GridNow
        IN  /\ now = RefIter(Seed, width, height, Len(returned))
            /\ (width = 3 /\ height = 3 /\ Len(returned) = 1 /\ LiveSet(Seed) = PlusShape)
                  => LiveSet(now) = RingShape

Wit_C1 ==
    /\ phase = "stable" /\ width = 3 /\ height = 3
    /\ LiveSet(Seed) = PlusShape
    /\ Len(returned) = 1
    /\ LiveSet(GridNow) = RingShape

\* the cells of a returned sequence
Elems(seq) == {seq[j] : j \in 1..Len(seq)}

\* C2: the sequence tick() returns holds exactly the cells whose committed
\* state after the tick differs from the one before it; a cell that keeps its
\* state is never in it.
Claim_C2 ==
    \A k \in 1..Len(returned) :
        Elems(returned[k]) = {i \in 1..Len(cells) : gens[k][i] # gens[k + 1][i]}

\* the flat index y * width + x of a cell
Flat(ref) == cells[ref].pos_y * width + cells[ref].pos_x

\* C3: the flat indices of the successive entries of every sequence tick()
\* returns are strictly increasing (row-major order, no cell twice).
Thm_C3 ==
    \A k \in 1..Len(returned) :
        \A j \in 1..(Len(returned[k]) - 1) :
            Flat(returned[k][j]) < Flat(returned[k][j + 1])

Wit_C3 ==
    /\ Len(returned) >= 1
    /\ Len(returned[1]) >= 3
    /\ cells[returned[1][1]].pos_y # cells[returned[1][Len(returned[1])]].pos_y

\* C4: construction succeeds only when width >= 1 and height >= 1; with a
\* smaller width or height it fails and yields no universe.
Claim_C4 == phase = "stable" => (width >= 1 /\ height >= 1)

\* C5: a universe built with width >= 1 and height >= 1 holds width * height
\* cells, all dead right after construction, the cell at flat index i at
\* (i mod width, i div width); set() and tick() change none of this.
Thm_C5 ==
    (phase = "stable" /\ width >= 1 /\ height >= 1) =>
        /\ Len(cells) = width * height
        /\ \A i \in 0..(Len(cells) - 1) :
              /\ cells[i + 1].pos_x = i % width
              /\ cells[i + 1].pos_y = i \div width
        /\ \A x \in Xs, y \in Ys :
              cells[CellAt(x, y)].pos_x = x /\ cells[CellAt(x, y)].pos_y = y
        /\ lastOp = "construct" => \A i \in 1..Len(cells) : ~is_alive(cells[i])

Wit_C5 ==
    /\ phase = "stable" /\ width >= 2 /\ height >= 2
    /\ lastOp = "tick"
    /\ \E i \in 1..Len(cells) : is_alive(cells[i])

\* the corner positions of the grid
Corners == {<<0, 0>>, <<width - 1, 0>>, <<0, height - 1>>, <<width - 1, height - 1>>}

\* the 8 offsets of the Moore neighbourhood
Offsets == {[x |-> d[1], y |-> d[2]] : d \in ((-1..1) \X (-1..1)) \ {<<0, 0>>}}

\* C6: no wrap-around: the slot of offset (dx, dy) of cell (x, y) refers to
\* the cell at (x+dx, y+dy) when that lies in the grid and to the dead
\* sentinel otherwise; with width, height >= 2 a corner cell has exactly 3
\* real neighbours, and a lone live cell at (0,0) is dead after one tick.
Thm_C6 ==
    phase = "stable" =>
        /\ {Neighbours[n] : n \in Names} = Offsets
        /\ NullCell.state = 0
        /\ \A i \in 1..Len(cells), n \in Names :
              LET x == cells[i].pos_x + Neighbours[n].x
                  y == cells[i].pos_y + Neighbours[n].y
              IN  Get(neighbours[i], n) =
                     IF x \in Xs /\ y \in Ys THEN CellAt(x, y) ELSE NULL
        /\ (width >= 2 /\ height >= 2) =>
              /\ \A p \in Corners :
                    Cardinality({n \in Names :
                        Get(neighbours[CellAt(p[1], p[2])], n) # NULL}) = 3
              /\ (LiveSet(Seed) = {<<0, 0>>} /\ Len(returned) >= 1)
                    => gens[2][CellAt(0, 0)] = 0

Wit_C6 ==
    /\ phase = "stable" /\ width >= 2 /\ height >= 2
    /\ LiveSet(Seed) = {<<0, 0>>}
    /\ Len(returned) = 1
    /\ ~is_alive(cells[CellAt(0, 0)])

\* three in a row around the middle cell m, horizontal or vertical
Blinker(o, m) ==
    IF o = "h" THEN {<<m[1] - 1, m[2]>>, m, <<m[1] + 1, m[2]>>}
               ELSE {<<m[1], m[2] - 1>>, m, <<m[1], m[2] + 1>>}

Other(o) == IF o = "h" THEN "v" ELSE "h"

\* the positions that lie on no grid edge
Interior == (1..(width - 2)) \X (1..(height - 2))

\* C7: a blinker whose middle cell is on no grid edge is, after one tick, the
\* perpendicular three-in-a-row (a different grid), and after two ticks the
\* original grid again.
Thm_C7 ==
    phase = "stable" =>
        \A m \in Interior, o \in {"h", "v"} :
            LiveSet(Seed) = Blinker(o, m) =>
                /\ Len(gens) >= 2 =>
                      /\ LiveSet(GridOf(gens[2])) = Blinker(Other(o), m)
                      /\ GridOf(gens[2]) # Seed
                /\ Len(gens) >= 3 => GridOf(gens[3]) = Seed
                /\ Len(returned) = 2 => GridNow = Seed

Wit_C7 ==
    /\ phase = "stable"
    /\ \E m \in Interior : LiveSet(Seed) = Blinker("h", m)
    /\ Len(returned) = 2
    /\ GridNow = Seed

\* C8: for a blinker, the result of the second tick names the same cells as
\* the result of the first, and every cell in it flips in the first tick and
\* flips back in the second.
Claim_C8 ==
    phase = "stable" =>
        \A m \in Interior, o \in {"h", "v"} :
            (LiveSet(Seed) = Blinker(o, m) /\ Len(returned) >= 2) =>
                /\ Elems(returned[2]) = Elems(returned[1])
                /\ \A c \in Elems(returned[2]) :
                      gens[1][c] # gens[2][c] /\ gens[2][c] # gens[3][c]

\* a width or height below 0 builds as many rows or columns as 0 does
Dim(n) == IF n < 0 THEN 0 ELSE n

\* the cell of cs whose own coordinates are (x, y)
CellWithPos(cs, x, y) == CHOOSE i \in 1..Len(cs) : cs[i].pos_x = x /\ cs[i].pos_y = y

\* the height x width matrix of the committed states of cs
Matrix(cs) ==
    [r \in 1..Dim(height) |-> [c \in 1..Dim(width) |->
        cs[CellWithPos(cs, c - 1, r - 1)].state = 1]]

\* C9: to_list() returns the height x width matrix of the committed states,
\* changes no cell, and returns the same matrix when called again with no
\* tick() or set() in between.
Thm_C9 ==
    [][lastOp' = "to_list" =>
          /\ cells' = cells
          /\ snap' = Matrix(cells)
          /\ lastOp = "to_list" => snap' = snap]_vars

Wit_C9 ==
    /\ lastOp = "to_list" /\ width >= 2 /\ height >= 2
    /\ Len(returned) >= 1
    /\ snap = Matrix(cells)
    /\ \E r \in 1..height, c \in 1..width : snap[r][c]
    /\ \E r \in 1..height, c \in 1..width : ~snap[r][c]

\* C10: in every state a caller can observe (after construction and after
\* every completed set() or tick()) no cell has a staged value pending and
\* every committed state is a whole 0 or 1.
Thm_C10 ==
    phase = "stable" =>
        \A i \in 1..Len(cells) :
            cells[i].state_dirty = None /\ cells[i].state \in {0, 1}

Wit_C10 ==
    /\ phase = "stable" /\ lastOp = "tick"
    /\ Len(returned[Len(returned)]) >= 1
    /\ \E i \in Elems(returned[Len(returned)]) : is_alive(cells[i])

\* C11: staging a cell that already has a staged value pending fails and
\* leaves every cell as it was; a stage that succeeds is on a cell with no
\* value pending and changes that cell's staged value only.
Thm_C11 ==
    [][\A i \in 1..Len(cells), a \in BOOLEAN :
          CellStage(i, a) =>
              /\ cells[i].state_dirty # None => (exc' # "none" /\ cells' = cells)
              /\ cells[i].state_dirty = None =>
                    /\ exc' = "none"
                    /\ cells'[i].state_dirty = PyInt(a)
                    /\ cells'[i].state = cells[i].state
                    /\ \A j \in 1..Len(cells) : j # i => cells'[j] = cells[j]]_vars

Wit_C11 ==
    /\ phase = "stable" /\ lastOp = "stage"
    /\ exc = "AssertionError"
    /\ \E i \in 1..Len(cells) : cells[i].state_dirty # None /\ cells[i].state \in {0, 1}

\* C12: commit() on a cell with no staged value pending fails and leaves the
\* cells as they were.
Claim_C12 ==
    [][\A i \in 1..Len(cells) :
          (CellCommit(i) /\ cells[i].state_dirty = None) =>
              (exc' # "none" /\ cells' = cells)]_vars

\* C13: in every stable state and for every position (x, y) of the grid,
\* set(x, y, alive) raises nothing, leaves cell (x, y) committed to alive with
\* nothing pending, changes no other cell, and a second identical set changes
\* nothing more (the neighbour slots are no part of what set writes).
Thm_C13 ==
    phase = "stable" =>
        \A x \in Xs, y \in Ys, a \in BOOLEAN :
            LET r   == setitem(board, cells, x, y, a)
                ref == CellWithPos(cells, x, y)
            IN  /\ r.exc = "none"
                /\ r.cells[ref] = [cells[ref] EXCEPT !.state = PyInt(a)]
                /\ r.cells[ref].state_dirty = None
                /\ Len(r.cells) = Len(cells)
                /\ \A j \in 1..Len(cells) : j # ref => r.cells[j] = cells[j]
                /\ setitem(board, r.cells, x, y, a) = r
                /\ cells[ref].state = PyInt(a) => r.cells = cells

Wit_C13 ==
    /\ phase = "stable" /\ lastOp = "set" /\ exc = "none"
    /\ width >= 2 /\ height >= 2
    /\ \E i \in 1..Len(cells) : is_alive(cells[i])
    /\ \E i \in 1..Len(cells) : ~is_alive(cells[i])

\* the seed grid a table stands for
SeedOf(c) ==
    [y \in 0..(Len(c.tabla) - 1) |-> [x \in 0..(Len(c.tabla[1]) - 1) |->
        c.tabla[y + 1][x + 1] = c.elo_sejt]]

\* C14: next_state returns the same two markers and a table of the same
\* dimensions whose entry [y][x] is the alive marker exactly when cell (x, y)
\* is alive after one reference Conway step of the seed, the dead marker
\* otherwise.
Thm_C14 ==
    batch # NoBatch =>
        (batch.done =>
            LET c == batch.config
                r == batch.result
                w == Len(c.tabla[1])
                h == Len(c.tabla)
                R == RefStep(SeedOf(c), w, h)
            IN  /\ r.exc = "none"
                /\ r.elo_sejt = c.elo_sejt
                /\ r.halott_sejt = c.halott_sejt
                /\ Len(r.tabla) = h
                /\ \A y \in 0..(h - 1) :
                      /\ Len(r.tabla[y + 1]) = w
                      /\ \A x \in 0..(w - 1) :
                            r.tabla[y + 1][x + 1] =
                               IF R[y][x] THEN c.elo_sejt ELSE c.halott_sejt)

Wit_C14 ==
    /\ batch # NoBatch
    /\ batch.done
    /\ Len(batch.config.tabla) = 3 /\ Len(batch.config.tabla[1]) = 3
    /\ batch.result.tabla # batch.config.tabla
    /\ \E y \in 1..3, x \in 1..3 : batch.result.tabla[y][x] = batch.config.elo_sejt
    /\ \E y \in 1..3, x \in 1..3 : batch.result.tabla[y][x] = batch.config.halott_sejt

\* the value the reference rule gives the cell at position j of _cells, from
\* the generation g
RefNext(g, j) == PyInt(RefStep(GridOf(g), width, height)[cells[j].pos_y][cells[j].pos_x])

\* C15: inside a tick no committed state changes before the first loop has
\* visited every cell, every staged value is the rule's value on the
\* generation the tick started from, and every commit is done when tick()
\* has returned.
Thm_C15 ==
    /\ phase = "tick" =>
          /\ frame.k = 1 => Committed(cells) = frame.before
          /\ frame.k > 1 => frame.i > Len(cells)
          /\ \A j \in 1..Len(cells) :
                cells[j].state_dirty # None =>
                    (j < frame.i /\ cells[j].state_dirty = RefNext(frame.before, j))
    /\ phase = "stable" => \A j \in 1..Len(cells) : cells[j].state_dirty = None

Wit_C15 ==
    /\ phase = "tick"
    /\ frame.i > Len(cells)
    /\ frame.k = 1
    /\ Len(frame.changed) >= 3
    /\ \E j \in 1..Len(cells) : cells[j].state = 1 /\ cells[j].state_dirty = 0
    /\ \E j \in 1..Len(cells) : cells[j].state = 0 /\ cells[j].state_dirty = 1

\* C16: when tick() has returned, every cell has been staged once and
\* committed once in it.
Claim_C16 ==
    (phase = "stable" /\ lastOp = "tick") =>
        \A j \in 1..Len(cells) : frame.staged[j] = 1 /\ frame.committed[j] = 1

\* C16, amended: a cell alive before the tick or alive after it is staged
\* once and then committed once in it; a cell that is dead and stays dead is
\* neither staged nor committed.
Thm_C16 ==
    /\ phase = "tick" =>
          \A j \in 1..Len(cells) :
              frame.committed[j] <= frame.staged[j] /\ frame.staged[j] <= 1
    /\ (phase = "stable" /\ lastOp = "tick") =>
          \A j \in 1..Len(cells) :
              LET n == IF frame.before[j] = 1 \/ cells[j].state = 1 THEN 1 ELSE 0
              IN  frame.staged[j] = n /\ frame.committed[j] = n

Wit_C16 ==
    /\ phase = "stable" /\ lastOp = "tick"
    /\ \E j \in 1..Len(cells) :
          frame.before[j] = 1 /\ cells[j].state = 1 /\ frame.committed[j] = 1
    /\ \E j \in 1..Len(cells) :
          frame.before[j] = 0 /\ cells[j].state = 0 /\ frame.staged[j] = 0

\* C17: construction leaves every neighbour slot of every cell resolved to a
\* cell of the universe or to the sentinel; no later step changes a slot or
\* the number of cells, and the sentinel counts as 0 in every state.
Thm_C17 ==
    [][phase' = "stable" =>
          /\ StateOf(cells', NULL) = 0
          /\ phase = "none" =>
                \A i \in 1..Len(cells'), n \in Names :
                    Get(neighbours'[i], n) \in (1..Len(cells')) \cup {NULL}
          /\ phase = "stable" =>
                (neighbours' = neighbours /\ Len(cells') = Len(cells))]_vars

Wit_C17 ==
    /\ phase = "stable" /\ lastOp = "tick" /\ Len(returned) = 2
    /\ width >= 2 /\ height >= 2
    /\ \E i \in 1..Len(cells) : is_alive(cells[i])
    /\ \E i \in 1..Len(cells), n \in Names : Get(neighbours[i], n) = NULL
    /\ \E i \in 1..Len(cells), n \in Names : Get(neighbours[i], n) # NULL

\* C18: a set() called after tick() has been called is refused and leaves
\* the cells as they were.
Claim_C18 ==
    [][(ticked /\ lastOp' = "set") => (exc' # "none" /\ cells' = cells)]_vars

\* C18, amended: a set() called after tick() has been called raises nothing
\* and is applied like any other: the universe then holds the grid the call
\* wrote, with no tick counted since.
Thm_C18 ==
    [][(ticked /\ lastOp' = "set") =>
          /\ exc' = "none"
          /\ returned' = <<>>
          /\ gens' = <<Committed(cells')>>
          /\ \E x \in Xs, y \in Ys, a \in BOOLEAN :
                cells' = [cells EXCEPT ![CellAt(x, y)].state = PyInt(a)]]_vars

Wit_C18 ==
    /\ phase = "stable" /\ ticked /\ lastOp = "set" /\ exc = "none"
    /\ \E i \in 1..Len(cells) : is_alive(cells[i])

Thm_C20 ==
    /\ exc = "none"
    /\ \A i \in 1..Len(cells) : cells[i].state # None /\ cells[i].state \in {0, 1}

Wit_C20 ==
    /\ phase = "stable" /\ ticked /\ Len(returned) = 2 /\ lastOp = "to_list"
    /\ exc = "none"
    /\ \E i \in 1..Len(cells) : is_alive(cells[i])
====
